---- MODULE Spec2Model ----
(***************************************************************************)
(* The two example agents of the repository:                               *)
(*   EqualWeightETFAgent  (src/examples/example_etf_agent.py)              *)
(*   DynamicFOFAgent      (src/examples/example_fof_agent.py)              *)
(* One agent object is under analysis at a time.  The tables its           *)
(* load_current_data returns come from external collaborators (a           *)
(* ClickHouse query, the arena data client) and are the model's inputs.    *)
(*                                                                         *)
(* Numbers.  Daily returns are integers (a return in some fixed unit; the  *)
(* Sharpe ratio does not depend on the unit) and all arithmetic is exact.  *)
(* A weight 1.0 / k is the rational <<1, k>>.  A Sharpe score x is kept as *)
(* the rational sgn(x) * x^2, which orders scores exactly as x does.       *)
(***************************************************************************)
EXTENDS Integers, Sequences, FiniteSets

VARIABLES
    self,          \* the agent object: its class and its fields
    df,            \* what EqualWeightETFAgent.load_current_data returns: the 'code' column
    returns_df,    \* what DynamicFOFAgent.load_current_data returns: the returns table
    call,          \* <<>> before any call, else <<arguments of the latest get_current_holdings>>
    ret,           \* outcome of the latest get_current_holdings
    agent_scores,  \* the local agent_scores of the latest DynamicFOFAgent call, as items()
    hist           \* <<>>, or <<the call and outcome before the latest one>>

vars == <<self, df, returns_df, call, ret, agent_scores, hist>>

----------------------------------------------------------------------------
(* Bounds of the model *)

MaxRows == 5
MaxTopN == 2
MaxCodes == 3

(* Program constants *)

MinObservations == 5
TradingDays == 252
DefaultTopN == 3
DefaultLookbackDays == 30

(* Input alphabets *)

Codes == {"AAA", "BBB", "CCC"}
AgentNames == <<"ETF_A", "ETF_B", "ETF_C">>
Returns == {0 - 1, 1}
Dates == {"2025-01-14", "2025-01-15"}
Feedbacks == {"None", "reduce risk"}
Thetas == {"None", "0.5"}
TopNs == (0 - 1)..MaxTopN
DbConfig == "db_config"

----------------------------------------------------------------------------
(* Helpers *)

Min(a, b) == IF a <= b THEN a ELSE b
Max(a, b) == IF a >= b THEN a ELSE b
Range(s) == {s[i] : i \in 1..Len(s)}
Sgn(x) == IF x > 0 THEN 1 ELSE IF x < 0 THEN 0 - 1 ELSE 0

BoundedSeq(S, n) == UNION {[1..k -> S] : k \in 0..n}

(* A table cell: <<>> is a missing value (NaN), <<v>> the return v. *)
NaN == <<>>
Cells == {NaN} \cup {<<v>> : v \in Returns}
CellRank(c) == IF c = NaN THEN 0 - 2 ELSE c[1]

(* Rational weights *)
RatEq(a, b) == a[1] * b[2] = b[1] * a[2]
RECURSIVE SumOver(_, _)
SumOver(h, S) ==
    IF S = {} THEN <<0, 1>>
    ELSE LET x == CHOOSE y \in S : TRUE
             r == SumOver(h, S \ {x})
         IN <<r[1] * h[x][2] + h[x][1] * r[2], r[2] * h[x][2]>>
SumWeights(h) == SumOver(h, DOMAIN h)

(* Outcomes of a call *)
NoRet == [kind |-> "none"]
Return(value) == [kind |-> "return", value |-> value]
Raise(exc) == [kind |-> "raise", exc |-> exc]

----------------------------------------------------------------------------
(* EqualWeightETFAgent *)

(* __init__: the base class keeps name and db_config. *)
EqualWeightETFAgent_init(db_config) ==
    [cls |-> "EqualWeightETFAgent", name |-> "EqualWeightETFStrategy",
     db_config |-> db_config]

(* get_current_holdings after the load: codes = df['code'].tolist(), the   *)
(* empty check, weight = 1.0 / len(codes) and the dict comprehension, in   *)
(* which a code that occurs twice is one key.                              *)
ETF_holdings(codes, curr_date, feedback, theta) ==
    IF Len(codes) = 0
    THEN Return([d \in {curr_date} |-> <<>>])
    ELSE Return([d \in {curr_date} |-> [c \in Range(codes) |-> <<1, Len(codes)>>]])

----------------------------------------------------------------------------
(* DynamicFOFAgent *)

DynamicFOFAgent_init(top_n, lookback_days, db_config) ==
    [cls |-> "DynamicFOFAgent", name |-> "DynamicFOF", db_config |-> db_config,
     top_n |-> top_n, lookback_days |-> lookback_days]

(* returns_df.empty: no rows or no columns *)
Empty(table) == Len(table.columns) = 0 \/ table.nrows = 0

(* returns_df[agent_name].dropna() *)
dropna(col) == SelectSeq(col, LAMBDA c : c # NaN)

RECURSIVE SumTo(_, _)
SumTo(rets, i) == IF i = 0 THEN 0 ELSE rets[i][1] + SumTo(rets, i - 1)
RECURSIVE SumSqTo(_, _)
SumSqTo(rets, i) == IF i = 0 THEN 0 ELSE rets[i][1] * rets[i][1] + SumSqTo(rets, i - 1)

(* n^2 (n-1)/n times the sample variance (ddof = 1): n * sum(x^2) - sum(x)^2 *)
Dispersion(rets) ==
    Len(rets) * SumSqTo(rets, Len(rets)) - SumTo(rets, Len(rets)) * SumTo(rets, Len(rets))

(* `if len(rets) < 5: continue` *)
Qualifies_four(rets) == ~(Len(rets) < MinObservations - 1)

Qualifies(rets) == ~(Len(rets) < MinObservations)

(* The score, as sgn(x) * x^2 for x = mean_ret / std_ret:                   *)
(*   mean_ret   = (S / n) * 252                                             *)
(*   std_ret^2  = (V / (n (n-1))) * 252,   V = Dispersion(rets)             *)
(*   x^2        = 252 * S^2 * (n-1) / (n * V)                               *)
(* std_ret > 0 exactly when V > 0; otherwise sharpe = 0.                    *)
Zero == [num |-> 0, den |-> 1]

sharpe_unguarded(rets) ==
    LET n == Len(rets)
        S == SumTo(rets, n)
        V == Dispersion(rets)
    IN [num |-> Sgn(S) * TradingDays * S * S * (n - 1), den |-> n * V]

sharpe(rets) ==
    LET n == Len(rets)
        S == SumTo(rets, n)
        V == Dispersion(rets)
    IN IF TradingDays * V > 0
       THEN [num |-> Sgn(S) * TradingDays * S * S * (n - 1), den |-> n * V]
       ELSE Zero

ScoreLT(a, b) == a.num * b.den < b.num * a.den
ScoreEQ(a, b) == a.num * b.den = b.num * a.den

(* The loop over returns_df.columns: items() of agent_scores, in column order *)
RECURSIVE ScoreLoop(_, _)
ScoreLoop(table, i) ==
    IF i > Len(table.columns) THEN <<>>
    ELSE LET rets == dropna(table.data[i])
         IN (IF Qualifies(rets) THEN << <<table.columns[i], sharpe(rets)>> >> ELSE <<>>)
            \o ScoreLoop(table, i + 1)

Remove(items, i) == SubSeq(items, 1, i - 1) \o SubSeq(items, i + 1, Len(items))

(* sorted(items, key=score, reverse=True): a stable sort, so among equal    *)
(* scores the earlier item stays first.                                    *)
FirstMax(items) ==
    CHOOSE i \in 1..Len(items) :
        /\ \A j \in 1..Len(items) : ~ScoreLT(items[i][2], items[j][2])
        /\ \A j \in 1..(i - 1) : ScoreLT(items[j][2], items[i][2])
LastMax(items) ==
    CHOOSE i \in 1..Len(items) :
        /\ \A j \in 1..Len(items) : ~ScoreLT(items[i][2], items[j][2])
        /\ \A j \in (i + 1)..Len(items) : ScoreLT(items[j][2], items[i][2])
FirstMin(items) ==
    CHOOSE i \in 1..Len(items) :
        /\ \A j \in 1..Len(items) : ~ScoreLT(items[j][2], items[i][2])
        /\ \A j \in 1..(i - 1) : ScoreLT(items[i][2], items[j][2])

RECURSIVE sorted_ascending(_)
AscendingFrom(items, i) == <<items[i]>> \o sorted_ascending(Remove(items, i))
sorted_ascending(items) ==
    IF items = <<>> THEN <<>> ELSE AscendingFrom(items, FirstMin(items))

RECURSIVE sorted_ties_reversed(_)
TiesReversedFrom(items, i) == <<items[i]>> \o sorted_ties_reversed(Remove(items, i))
sorted_ties_reversed(items) ==
    IF items = <<>> THEN <<>> ELSE TiesReversedFrom(items, LastMax(items))

RECURSIVE SortedDesc(_)
SortedFrom(items, i) == <<items[i]>> \o SortedDesc(Remove(items, i))
SortedDesc(items) ==
    IF items = <<>> THEN <<>> ELSE SortedFrom(items, FirstMax(items))

sorted_agents(items) == SortedDesc(items)

(* sorted_agents[:self.top_n], with Python's meaning of a negative bound *)
top_agents_one_more(sorted, top_n) ==
    IF top_n >= 0 THEN SubSeq(sorted, 1, Min(top_n + 1, Len(sorted)))
    ELSE SubSeq(sorted, 1, Max(Len(sorted) + top_n + 1, 0))

top_agents(sorted, top_n) ==
    IF top_n >= 0 THEN SubSeq(sorted, 1, Min(top_n, Len(sorted)))
    ELSE SubSeq(sorted, 1, Max(Len(sorted) + top_n, 0))

(* weight = 1.0 / len(top_agents); holdings = {agent: weight ...} *)
holdings(top) ==
    [a \in {top[i][1] : i \in 1..Len(top)} |-> <<1, Len(top)>>]

(* weight = 1.0 / len(top_agents), the holdings and the return *)
FOF_weigh(scores, top, curr_date) ==
    IF Len(top) = 0
    THEN [ret |-> Raise("ZeroDivisionError"), agent_scores |-> scores]
    ELSE [ret |-> Return([d \in {curr_date} |-> holdings(top)]), agent_scores |-> scores]

(* `if not agent_scores`, the sort and the slice *)
FOF_rank(scores, top_n, curr_date) ==
    IF scores = <<>>
    THEN [ret |-> Return([d \in {curr_date} |-> <<>>]), agent_scores |-> scores]
    ELSE FOF_weigh(scores, top_agents(sorted_agents(scores), top_n), curr_date)

(* get_current_holdings after the load: the outcome and the final          *)
(* agent_scores (<<>> when the loop is not reached).                       *)
FOF_empty_returns_bare_dict(me, table, curr_date, feedback, theta) ==
    IF Empty(table)
    THEN [ret |-> Return(<<>>), agent_scores |-> <<>>]
    ELSE FOF_rank(ScoreLoop(table, 1), me.top_n, curr_date)

FOF_theta_limits(me, table, curr_date, feedback, theta) ==
    IF Empty(table)
    THEN [ret |-> Return([d \in {curr_date} |-> <<>>]), agent_scores |-> <<>>]
    ELSE FOF_rank(ScoreLoop(table, 1), IF theta = "None" THEN me.top_n ELSE 1, curr_date)

FOF_holdings(me, table, curr_date, feedback, theta) ==
    IF Empty(table)
    THEN [ret |-> Return([d \in {curr_date} |-> <<>>]), agent_scores |-> <<>>]
    ELSE FOF_rank(ScoreLoop(table, 1), me.top_n, curr_date)

----------------------------------------------------------------------------
(* Inputs *)

(* Results of the ClickHouse query `SELECT code ...`: the 'code' column.   *)
(* Nothing in the query makes the codes distinct.                          *)
CodeColumns == BoundedSeq(Codes, MaxCodes)

(* The columns of r rows over the cells C.  Each column is read only       *)
(* through dropna(), len(), mean() and std(), which do not depend on the   *)
(* order of its rows, so one column stands for all its permutations: the   *)
(* one with missing values first and returns ascending.                    *)
ColumnsOf(r, C) ==
    {col \in [1..r -> C] : \A i \in 1..(r - 1) : CellRank(col[i]) <= CellRank(col[i + 1])}

(* The returns table of r rows whose columns, named in column order, are data *)
Table(r, data) ==
    [columns |-> SubSeq(AgentNames, 1, Len(data)), nrows |-> r, data |-> data]

NoTable == [columns |-> <<>>, nrows |-> 0, data |-> <<>>]

----------------------------------------------------------------------------
(* The state machine *)

InitETF ==
    /\ self = EqualWeightETFAgent_init(DbConfig)
    /\ df \in CodeColumns
    /\ returns_df = NoTable

InitFOF(T, C) ==
    /\ df = <<>>
    /\ \E r \in 0..MaxRows, c \in 0..Len(AgentNames) :
          \E data \in [1..c -> ColumnsOf(r, C)] : returns_df = Table(r, data)
    /\ \E top_n \in T : self = DynamicFOFAgent_init(top_n, DefaultLookbackDays, DbConfig)

NoCallYet ==
    /\ call = <<>>
    /\ ret = NoRet
    /\ agent_scores = <<>>
    /\ hist = <<>>

Init == (InitETF \/ InitFOF(TopNs, Cells)) /\ NoCallYet

(* load_current_data: the answer of the external data source for the date. *)
(* The model keeps the source's content fixed, so every date loads the     *)
(* same table.                                                             *)
ETF_load_current_data(curr_date) == df
FOF_load_current_data(curr_date) == returns_df

EqualWeightETFAgent_get_current_holdings(curr_date, feedback, theta) ==
    /\ self.cls = "EqualWeightETFAgent"
    /\ call' = <<[curr_date |-> curr_date, feedback |-> feedback, theta |-> theta]>>
    /\ ret' = ETF_holdings(ETF_load_current_data(curr_date), curr_date, feedback, theta)
    /\ agent_scores' = <<>>
    /\ UNCHANGED <<self, df, returns_df>>

FOF_call_keeps_top_n(curr_date, feedback, theta) ==
    LET out == FOF_holdings(self, FOF_load_current_data(curr_date), curr_date, feedback, theta)
    IN /\ self.cls = "DynamicFOFAgent"
       /\ call' = <<[curr_date |-> curr_date, feedback |-> feedback, theta |-> theta]>>
       /\ ret' = out.ret
       /\ agent_scores' = out.agent_scores
       /\ self' = [self EXCEPT !.top_n = Min(self.top_n, Len(out.agent_scores))]
       /\ UNCHANGED <<df, returns_df>>

DynamicFOFAgent_get_current_holdings(curr_date, feedback, theta) ==
       /\ self.cls = "DynamicFOFAgent"
       /\ call' = <<[curr_date |-> curr_date, feedback |-> feedback, theta |-> theta]>>
       /\ \E out \in {FOF_holdings(self, FOF_load_current_data(curr_date), curr_date, feedback, theta)} :
           /\ ret' = out.ret
           /\ agent_scores' = out.agent_scores
       /\ UNCHANGED <<self, df, returns_df>>

(* The call the examples make, agent.get_current_holdings(date): feedback  *)
(* and theta take their default None.  Nothing is remembered of earlier    *)
(* calls.                                                                  *)
ETFCall ==
    \E curr_date \in Dates :
        /\ EqualWeightETFAgent_get_current_holdings(curr_date, "None", "None")
        /\ UNCHANGED hist

FOFCall ==
    \E curr_date \in Dates :
        /\ DynamicFOFAgent_get_current_holdings(curr_date, "None", "None")
        /\ UNCHANGED hist

Next == ETFCall \/ FOFCall

Spec == Init /\ [][Next]_vars

(* Sequences of calls with any feedback and theta, the call before the     *)
(* latest one recorded in hist.  The FOF agent is the one the example      *)
(* builds (top_n = 3, lookback_days = 30) and the tables are the ones its  *)
(* load asks for: it passes fillna_value, so no value is missing.          *)
Record == hist' = IF call = <<>> THEN <<>> ELSE <<[call |-> call[1], ret |-> ret]>>

ETFCallAgain ==
    \E curr_date \in Dates, feedback \in Feedbacks, theta \in Thetas :
        /\ EqualWeightETFAgent_get_current_holdings(curr_date, feedback, theta)
        /\ Record

FOFCallAgain ==
    \E curr_date \in Dates, feedback \in Feedbacks, theta \in Thetas :
        /\ DynamicFOFAgent_get_current_holdings(curr_date, feedback, theta)
        /\ Record

InitCalls == (InitETF \/ InitFOF({DefaultTopN}, Cells \ {NaN})) /\ NoCallYet

NextCalls == ETFCallAgain \/ FOFCallAgain

SpecCalls == InitCalls /\ [][NextCalls]_vars

----------------------------------------------------------------------------
(* Vocabulary of the properties *)

IsETF == self.cls = "EqualWeightETFAgent"
IsFOF == self.cls = "DynamicFOFAgent"
Called == call # <<>>
Returned == ret.kind = "return"
SingleDate == DOMAIN ret.value = {call[1].curr_date}
Held == ret.value[call[1].curr_date]
One == <<1, 1>>

Columns == 1..Len(returns_df.columns)
ColName(i) == returns_df.columns[i]
Observations(i) == dropna(returns_df.data[i])
Qualifying == {i \in Columns : Len(Observations(i)) >= MinObservations}
Score(i) == sharpe(Observations(i))
ZeroVolatility(i) == \A a, b \in Range(Observations(i)) : a = b
ScoreOf(name) == {agent_scores[k][2] : k \in {m \in 1..Len(agent_scores) : agent_scores[m][1] = name}}

----------------------------------------------------------------------------
(* C1: for every non-empty list of N identifiers the ETF query returns,    *)
(* duplicates allowed, get_current_holdings returns {curr_date: h} where h *)
(* has exactly N entries, each of weight 1/N, and the weights sum to 1.    *)
C1_EqualWeightNEntries ==
    (IsETF /\ Called /\ Len(df) > 0) =>
        /\ Returned
        /\ SingleDate
        /\ Cardinality(DOMAIN Held) = Len(df)
        /\ \A c \in DOMAIN Held : RatEq(Held[c], <<1, Len(df)>>)
        /\ RatEq(SumWeights(Held), One)

(* C2: for every returns table and every integer top_n the FOF call        *)
(* returns normally {curr_date: h}; h is empty when no column has at least *)
(* 5 observations, and otherwise its weights are non-negative and sum to 1.*)
C2_FOFAlwaysReturnsWeights ==
    (IsFOF /\ Called) =>
        /\ Returned
        /\ SingleDate
        /\ (Qualifying = {} => Held = <<>>)
        /\ (Qualifying # {} =>
              /\ \A a \in DOMAIN Held : Held[a][1] >= 0 /\ Held[a][2] > 0
              /\ RatEq(SumWeights(Held), One))

(* C3: with top_n >= 1 and q >= 1 qualifying columns the FOF call returns  *)
(* exactly min(top_n, q) identifiers, each weighted 1 / min(top_n, q).     *)
C3_TopNUniform ==
    (IsFOF /\ Called /\ self.top_n >= 1 /\ Qualifying # {}) =>
        /\ Returned
        /\ SingleDate
        /\ Cardinality(DOMAIN Held) = Min(self.top_n, Cardinality(Qualifying))
        /\ \A a \in DOMAIN Held :
              RatEq(Held[a], <<1, Min(self.top_n, Cardinality(Qualifying))>>)

C3_Witness ==
    /\ IsFOF /\ Called /\ Returned
    /\ self.top_n = 2
    /\ Cardinality(Qualifying) = 3
    /\ Cardinality(DOMAIN Held) = 2

(* C4: a loaded table with no rows is not an error: both agents return     *)
(* exactly {curr_date: {}}, and the FOF agent computes no score.           *)
C4_EmptyInput ==
    Called =>
        /\ (IsETF /\ Len(df) = 0) =>
              ret = Return([d \in {call[1].curr_date} |-> <<>>])
        /\ (IsFOF /\ returns_df.nrows = 0) =>
              /\ ret = Return([d \in {call[1].curr_date} |-> <<>>])
              /\ agent_scores = <<>>

C4_Witness ==
    /\ IsFOF /\ Called
    /\ returns_df.nrows = 0
    /\ Len(returns_df.columns) = Len(AgentNames)
    /\ Returned /\ SingleDate /\ Held = <<>>

(* C5: a column with fewer than 5 non-missing observations never appears   *)
(* in the returned holdings, whatever its returns and whatever top_n is.   *)
C5_TooFewObservationsExcluded ==
    (IsFOF /\ Called /\ Returned /\ SingleDate) =>
        \A i \in Columns :
            Len(Observations(i)) < MinObservations => ColName(i) \notin DOMAIN Held

C5_Witness ==
    /\ IsFOF /\ Called /\ Returned /\ SingleDate
    /\ \E i \in Columns :
          /\ Len(Observations(i)) = MinObservations - 1
          /\ SumTo(Observations(i), Len(Observations(i))) > 0
          /\ ColName(i) \notin DOMAIN Held
    /\ Qualifying # {}
    /\ Cardinality(Qualifying) < self.top_n
    /\ Cardinality(DOMAIN Held) = Cardinality(Qualifying)

(* C6: with top_n >= 1, a qualifying column whose score is strictly higher *)
(* than another's ranks above it: if the lower one is held, so is the      *)
(* higher one.                                                             *)
C6_HigherScoreRanksAbove ==
    (IsFOF /\ Called /\ Returned /\ SingleDate /\ self.top_n >= 1) =>
        \A i, j \in Qualifying :
            (ScoreLT(Score(j), Score(i)) /\ ColName(j) \in DOMAIN Held)
                => ColName(i) \in DOMAIN Held

C6_Witness ==
    /\ IsFOF /\ Called /\ Returned /\ SingleDate /\ self.top_n >= 1
    /\ \E i, j \in Qualifying :
          /\ j < i
          /\ ScoreLT(Score(j), Score(i))
          /\ ColName(i) \in DOMAIN Held
          /\ ColName(j) \notin DOMAIN Held

(* C7: a column with at least 5 observations and zero volatility is given  *)
(* score 0, no division by zero taking place, and when it is the only      *)
(* qualifying column and top_n >= 1 it is held with weight 1.              *)
C7_ZeroVolatilityScoresZero ==
    (IsFOF /\ Called) =>
        \A i \in Qualifying :
            ZeroVolatility(i) =>
                /\ ScoreOf(ColName(i)) = {Zero}
                /\ (Qualifying = {i} /\ self.top_n >= 1) =>
                      ret = Return([d \in {call[1].curr_date} |->
                                      [a \in {ColName(i)} |-> One]])

C7_Witness ==
    /\ IsFOF /\ Called /\ Returned /\ SingleDate
    /\ self.top_n >= 1
    /\ Len(returns_df.columns) > 1
    /\ \E i \in Columns :
          /\ Qualifying = {i}
          /\ ZeroVolatility(i)
          /\ SumTo(Observations(i), Len(Observations(i))) > 0
          /\ DOMAIN Held = {ColName(i)}

(* C8: feedback and theta are no-ops: a call with the same curr_date and   *)
(* the same loaded table as the call before it returns the identical       *)
(* result, whatever the feedback and theta of the two calls.               *)
C8_FeedbackThetaNoOps ==
    (hist # <<>> /\ hist[1].call.curr_date = call[1].curr_date) => ret = hist[1].ret

C8_Witness ==
    /\ hist # <<>>
    /\ IsFOF
    /\ hist[1].call.curr_date = call[1].curr_date
    /\ hist[1].call.feedback # call[1].feedback
    /\ hist[1].call.theta # call[1].theta
    /\ Returned /\ SingleDate
    /\ Cardinality(DOMAIN Held) > 1
    /\ ret = hist[1].ret

(* C9: no cross-call state: after any sequence of calls the agent's fields *)
(* are the constructed ones, and each call's result is the result of the   *)
(* same call on a fresh agent with the same loaded table.                  *)
Fresh ==
    IF IsETF THEN EqualWeightETFAgent_init(DbConfig)
    ELSE DynamicFOFAgent_init(DefaultTopN, DefaultLookbackDays, DbConfig)

AloneOnFresh(c) ==
    IF IsETF THEN ETF_holdings(df, c.curr_date, c.feedback, c.theta)
    ELSE FOF_holdings(Fresh, returns_df, c.curr_date, c.feedback, c.theta).ret

C10_TiesByColumnOrder ==
    (IsFOF /\ Called /\ Returned /\ SingleDate) =>
        \A i, j \in Qualifying :
            (i < j /\ ScoreEQ(Score(i), Score(j)) /\ ColName(j) \in DOMAIN Held)
                => ColName(i) \in DOMAIN Held

C10_Witness ==
    /\ IsFOF /\ Called /\ Returned /\ SingleDate
    /\ \E i, j \in Qualifying :
          /\ i < j
          /\ ScoreEQ(Score(i), Score(j))
          /\ Observations(i) # Observations(j)
          /\ ColName(i) \in DOMAIN Held
          /\ ColName(j) \notin DOMAIN Held

====
